---- MODULE Spec2Model ----
(***************************************************************************)
(* Model of generate_data.py: a file-checkpointed pipeline of four guarded *)
(* stages (mesh, fiber, LV tree, RV tree) over the directory "data".       *)
(* The external libraries are modelled by what the script relies on: which *)
(* files they read and write, and that each call may raise.                *)
(* Indices are 1-based here and 0-based in the script.                     *)
(***************************************************************************)
EXTENDS Integers, Sequences, FiniteSets, TLC

VARIABLES files, params, gmsh, pc, start, calls, wrote, geo, attr, msh, connectivity, index, rng

vars == <<files, params, gmsh, pc, start, calls, wrote, geo, attr, msh, connectivity, index, rng>>

(* ------------------------------ bounds --------------------------------- *)

MaxVerts == 3
MaxBlocks == 2
MaxCells == 2

(* ---------------------- the data directory ----------------------------- *)

msh_file == "biv_ellipsoid.msh"
fiber_file == "fiber.xdmf"
lv_file == "lv_tree.vtu"
rv_file == "rv_tree.vtu"

\* The loop of line 78 writes f"{datadir}/{attr}.xdmf" for these, in order.
AttrFiles == <<"fiber.xdmf", "sheet.xdmf", "sheet_normal.xdmf">>

FileNames == {msh_file, lv_file, rv_file} \cup {AttrFiles[k] : k \in 1..3}

GuardFiles == {msh_file, fiber_file, lv_file, rv_file}

Absent == [exists |-> FALSE]

is_file(f) == files[f].exists

Ventricles == {"lv", "rv"}

TreeFile(v) == IF v = "lv" THEN lv_file ELSE rv_file

(* ------------------------- shape parameters ---------------------------- *)

\* The literals of lines 29-45 ("P"), and one edited set of them ("Q").
ShapeParams == {"P", "Q"}

(* ------------------------------ meshes --------------------------------- *)

\* Physical-group tags (the mesh generator assigns the numbers; any two
\* distinct ones do); field_data maps a region name to its tag, NoTag when
\* the name is missing from field_data.
NoTag == 0
TagLV == 1
TagRV == 2
Tags == {TagLV, TagRV}

FieldName(v) == IF v = "lv" THEN "ENDO_LV" ELSE "ENDO_RV"

\* Coordinates in units of 0.01: init_node of lines 100 and 146, the LV
\* ordinate 2.34484 rounded to 2.34.
LvSeedPoint == <<0, 234, 19>>
RvSeedPoint == <<0, 319, 19>>
init_node(v) == IF v = "lv" THEN LvSeedPoint ELSE RvSeedPoint

Points == {<<0, 234, 20>>, <<0, 234, 18>>, <<0, 236, 19>>, <<0, 319, 20>>}

SeqsUpTo(S, lo, hi) == UNION {[1..n -> S] : n \in lo..hi}

\* A cell block is the sequence of its cells' physical tags (cell_data
\* "gmsh:physical"); its cells (msh.cells[i].data rows) are <<block, row>>.
Blocks == SeqsUpTo(Tags, 1, MaxCells)

\* field_data with each endocardial name present or missing.
FieldData ==
  {[n \in {"ENDO_LV", "ENDO_RV"} |-> IF n = "ENDO_LV" THEN a ELSE b] :
     a \in {NoTag, TagLV}, b \in {NoTag, TagRV}}

FullFieldData == [n \in {"ENDO_LV", "ENDO_RV"} |-> IF n = "ENDO_LV" THEN TagLV ELSE TagRV]

StdVerts == <<<<0, 234, 20>>, <<0, 319, 20>>>>
StdBlocks == <<<<TagLV, TagLV>>, <<TagRV>>>>

GoodGeo == [verts |-> StdVerts, blocks |-> StdBlocks, fd |-> FullFieldData]
NoLvGeo == [verts |-> StdVerts, blocks |-> <<<<TagRV>>>>, fd |-> FullFieldData]

\* The mesh files the tree stages are checked on: every vertex array up to
\* MaxVerts over Points, and every block structure up to MaxBlocks blocks of
\* up to MaxCells cells with every field_data.
MeshInputs ==
  {[verts |-> vs, blocks |-> StdBlocks, fd |-> FullFieldData] : vs \in SeqsUpTo(Points, 1, MaxVerts)}
  \cup
  {[verts |-> StdVerts, blocks |-> bs, fd |-> fd] : bs \in SeqsUpTo(Blocks, 0, MaxBlocks), fd \in FieldData}

\* What the mesh generator may produce in the pipeline specification.
PipelineGeos == {GoodGeo, NoLvGeo}

MeshContent(shape, g) ==
  [exists |-> TRUE, shape |-> shape, verts |-> g.verts, blocks |-> g.blocks, fd |-> g.fd]

(* ----------------- the tree stages' pure computations ------------------ *)

\* Line 96/141: inds = [i for i, x in enumerate(cell_data) if x[0] == tag]:
\* the blocks whose FIRST cell carries the tag, in file order.
RECURSIVE IndsFrom(_, _, _)
IndsFrom(blocks, tag, i) ==
  IF i > Len(blocks) THEN <<>>
  ELSE (IF blocks[i][1] = tag THEN <<i>> ELSE <<>>) \o IndsFrom(blocks, tag, i + 1)

Inds(blocks, tag) == IndsFrom(blocks, tag, 1)

\* A stacking that accepts an empty list.
VStackRaisesNever(inds) == FALSE

\* np.vstack of an empty list raises ValueError.
VStackRaises(inds) == inds = <<>>

\* Line 97/142: np.vstack([msh.cells[i].data for i in inds]): all rows of the
\* selected blocks, block after block.
RECURSIVE VStack(_, _)
VStack(blocks, inds) ==
  IF inds = <<>> THEN <<>>
  ELSE [r \in 1..Len(blocks[Head(inds)]) |-> <<Head(inds), r>>] \o VStack(blocks, Tail(inds))

\* Squared Euclidean distance; np.linalg.norm is its square root, which
\* orders the vertices the same way.
Dist2(a, b) ==
  (a[1] - b[1]) * (a[1] - b[1]) + (a[2] - b[2]) * (a[2] - b[2]) + (a[3] - b[3]) * (a[3] - b[3])

\* The index of a farthest vertex.
ArgMax(verts, c) ==
  CHOOSE i \in 1..Len(verts) :
    /\ \A j \in 1..Len(verts) : Dist2(verts[j], c) <= Dist2(verts[i], c)
    /\ \A j \in 1..(i - 1) : Dist2(verts[j], c) < Dist2(verts[i], c)

\* Line 106/148: np.linalg.norm(np.subtract(verts, init_node), axis=1).argmin():
\* the first index at which the minimum is attained.
ArgMin(verts, c) ==
  CHOOSE i \in 1..Len(verts) :
    /\ \A j \in 1..Len(verts) : Dist2(verts[i], c) <= Dist2(verts[j], c)
    /\ \A j \in 1..(i - 1) : Dist2(verts[j], c) > Dist2(verts[i], c)

(* ------------------------ random-number source ------------------------- *)

\* np.random.seed(1234), lines 119 and 153.
SEED == 1234

\* The states a fresh process's generator may start in (OS entropy).
Entropy == {17, 42}

\* A script that seeds the generator in the LV stage only.
SeedLvOnly(v, r) == IF v = "lv" THEN SEED ELSE r

\* The generator's state when generate_fractal_tree is called in stage v,
\* given its state r before line 119/153.
SeedState(v, r) == SEED

\* The generator's state after a growth of n iterations has drawn from it.
Advance(r, n) == (r * 3 + n) % 2048

\* FractalTreeParameters of lines 121-127 and 155-161 (lengths in tenths).
TreeParam(v) ==
  IF v = "lv"
  THEN [filename |-> "lv_tree", init_length |-> 70, N_it |-> 12, length |-> 5,
        initial_direction |-> <<1, 0, 0>>]
  ELSE [filename |-> "rv_tree", init_length |-> 97, N_it |-> 15, length |-> 5,
        initial_direction |-> <<1, 0, 0>>]

\* The tree generate_fractal_tree writes: determined by the Mesh object
\* (verts, connectivity, init_node), the parameters and the generator state.
Tree(v, m, c, i, r) ==
  [exists |-> TRUE, verts |-> m.verts, connectivity |-> c, init_node |-> m.verts[i],
   param |-> TreeParam(v), rng |-> r]

\* What write_checkpoint stores for one attribute of the ldrb system.
Field(k, g) == [exists |-> TRUE, attr |-> k, shape |-> g.shape, verts |-> g.verts]

(* ------------------------------ state ---------------------------------- *)

\* files   the data directory: file name -> content, Absent when missing
\* params  the shape parameters the script currently holds (lines 29-45)
\* gmsh    the geometries the mesh generator can produce; never changes
\* pc      each invocation's position in the script
\* start   the directory as it was when the invocation started
\* calls   the external operations the invocation has invoked so far
\* wrote   the files the invocation has written so far, in order
\* geo, attr, msh, connectivity, index, rng   the invocation's variables
\*         geo/system, the loop position of line 78, msh, connectivity, index, and the
\*         state of numpy's global generator; a variable that is not live is
\*         held at its initial value

NoFiles == [f \in FileNames |-> Absent]

Terminal == {"idle", "done", "failed"}

Procs == DOMAIN pc

InitFor(P, G, F) ==
  /\ files = F
  /\ params = "P"
  /\ gmsh = G
  /\ pc = [p \in P |-> "idle"]
  /\ start = [p \in P |-> NoFiles]
  /\ calls = [p \in P |-> {}]
  /\ wrote = [p \in P |-> <<>>]
  /\ geo = [p \in P |-> Absent]
  /\ attr = [p \in P |-> 0]
  /\ msh = [p \in P |-> Absent]
  /\ connectivity = [p \in P |-> <<>>]
  /\ index = [p \in P |-> 0]
  /\ rng = [p \in P |-> 0]

Init == InitFor({1}, PipelineGeos, NoFiles)

Set(f, p, x) == [f EXCEPT ![p] = x]

Locals == <<geo, attr, msh, connectivity, index>>

Goto(p, l) == pc' = Set(pc, p, l)

Call(p, op) == calls' = Set(calls, p, calls[p] \cup {op})

Write(p, f, c) ==
  /\ files' = [files EXCEPT ![f] = c]
  /\ wrote' = Set(wrote, p, Append(wrote[p], f))

Raise(p) == Goto(p, "failed")

(* --------------------------- the guards -------------------------------- *)

\* A mesh stage that runs unconditionally.
MeshAlways == TRUE

\* A mesh guard keyed on the parameters the file was generated with.
MeshStale == ~is_file(msh_file) \/ files[msh_file].shape # params

\* Line 23: if not msh_file.is_file()
MeshMissing == ~is_file(msh_file)

\* A fiber guard that tests all three files the stage writes.
FiberAnyMissing == \E k \in 1..Len(AttrFiles) : ~is_file(AttrFiles[k])

\* Line 57: if not fiber_file.is_file()
FiberMissing == ~is_file(fiber_file)

\* A tree guard that also holds a lock on the stage: it lets an invocation
\* in only while no invocation is inside the stage.
TreeMissingLocked(v) ==
  /\ ~is_file(TreeFile(v))
  /\ \A q \in DOMAIN pc : pc[q] \notin {IF v = "lv" THEN "lv_read" ELSE "rv_read",
                                       IF v = "lv" THEN "lv_grow" ELSE "rv_grow"}

\* Both tree guards testing rv_file.
TreeMissingRv(v) == ~is_file(rv_file)

\* Lines 90 and 136: if not lv_file.is_file() / if not rv_file.is_file()
TreeMissing(v) == ~is_file(TreeFile(v))

(* ------------------------ running the script --------------------------- *)

\* python generate_data.py: a fresh process.
Start(p) ==
  /\ pc[p] \in Terminal
  /\ Goto(p, "mesh_guard")
  /\ start' = Set(start, p, files)
  /\ calls' = Set(calls, p, {})
  /\ wrote' = Set(wrote, p, <<>>)
  /\ \E r \in Entropy : rng' = Set(rng, p, r)
  /\ UNCHANGED <<files, params, gmsh, Locals>>

MeshGuard(p) ==
  /\ pc[p] = "mesh_guard"
  /\ Goto(p, IF MeshMissing THEN "mesh_call" ELSE "fiber_guard")
  /\ UNCHANGED <<files, params, gmsh, start, calls, wrote, Locals, rng>>

\* Lines 27-46: create_biv_ellipsoid returns having written the mesh.
MeshCallOk(p) ==
  /\ pc[p] = "mesh_call"
  /\ Call(p, "create_biv_ellipsoid")
  /\ \E g \in gmsh : Write(p, msh_file, MeshContent(params, g))
  /\ Goto(p, "fiber_guard")
  /\ UNCHANGED <<params, gmsh, start, Locals, rng>>

\* create_biv_ellipsoid raises, before or after the mesh file was written.
MeshCallFail(p) ==
  /\ pc[p] = "mesh_call"
  /\ Call(p, "create_biv_ellipsoid")
  /\ \/ UNCHANGED <<files, wrote>>
     \/ \E g \in gmsh : Write(p, msh_file, MeshContent(params, g))
  /\ Raise(p)
  /\ UNCHANGED <<params, gmsh, start, Locals, rng>>

FiberGuard(p) ==
  /\ pc[p] = "fiber_guard"
  /\ Goto(p, IF FiberMissing THEN "from_folder" ELSE "lv_guard")
  /\ UNCHANGED <<files, params, gmsh, start, calls, wrote, Locals, rng>>

\* Lines 58-65: Geometry.from_folder and the four marker lookups.
FromFolderOk(p) ==
  /\ pc[p] = "from_folder"
  /\ is_file(msh_file)
  /\ \A n \in DOMAIN files[msh_file].fd : files[msh_file].fd[n] # NoTag
  /\ Call(p, "Geometry.from_folder")
  /\ geo' = Set(geo, p, files[msh_file])
  /\ Goto(p, "ldrb")
  /\ UNCHANGED <<files, params, gmsh, start, wrote, attr, msh, connectivity, index, rng>>

FromFolderFail(p) ==
  /\ pc[p] = "from_folder"
  /\ Call(p, "Geometry.from_folder")
  /\ Raise(p)
  /\ UNCHANGED <<files, params, gmsh, start, wrote, Locals, rng>>

\* Lines 67-76: ldrb.dolfin_ldrb.
LdrbOk(p) ==
  /\ pc[p] = "ldrb"
  /\ Call(p, "dolfin_ldrb")
  /\ attr' = Set(attr, p, 1)
  /\ Goto(p, "write")
  /\ UNCHANGED <<files, params, gmsh, start, wrote, geo, msh, connectivity, index, rng>>

LdrbFail(p) ==
  /\ pc[p] = "ldrb"
  /\ Call(p, "dolfin_ldrb")
  /\ geo' = Set(geo, p, Absent)
  /\ Raise(p)
  /\ UNCHANGED <<files, params, gmsh, start, wrote, attr, msh, connectivity, index, rng>>

\* Lines 78-81: one pass of the loop over fiber, sheet, sheet_normal.
WriteCheckpointOk(p) ==
  /\ pc[p] = "write"
  /\ Call(p, "write_checkpoint")
  /\ Write(p, AttrFiles[attr[p]], Field(attr[p], geo[p]))
  /\ IF attr[p] = Len(AttrFiles)
     THEN /\ attr' = Set(attr, p, 0)
          /\ geo' = Set(geo, p, Absent)
          /\ Goto(p, "lv_guard")
     ELSE /\ attr' = Set(attr, p, attr[p] + 1)
          /\ UNCHANGED <<geo, pc>>
  /\ UNCHANGED <<params, gmsh, start, msh, connectivity, index, rng>>

\* write_checkpoint raises, before or after the file was written.
WriteCheckpointFail(p) ==
  /\ pc[p] = "write"
  /\ Call(p, "write_checkpoint")
  /\ \/ UNCHANGED <<files, wrote>>
     \/ Write(p, AttrFiles[attr[p]], Field(attr[p], geo[p]))
  /\ attr' = Set(attr, p, 0)
  /\ geo' = Set(geo, p, Absent)
  /\ Raise(p)
  /\ UNCHANGED <<params, gmsh, start, msh, connectivity, index, rng>>

(* --------------------------- tree stages ------------------------------- *)

GuardPc(v) == IF v = "lv" THEN "lv_guard" ELSE "rv_guard"
ReadPc(v) == IF v = "lv" THEN "lv_read" ELSE "rv_read"
GrowPc(v) == IF v = "lv" THEN "lv_grow" ELSE "rv_grow"
\* The statement after the stage of v: the RV guard, or the end of the script.
AfterPc(v) == IF v = "lv" THEN "rv_guard" ELSE "done"

TreeGuard(p, v) ==
  /\ pc[p] = GuardPc(v)
  /\ Goto(p, IF TreeMissing(v) THEN ReadPc(v) ELSE AfterPc(v))
  /\ UNCHANGED <<files, params, gmsh, start, calls, wrote, Locals, rng>>

\* The tag of line 95/140, NoTag when the lookup raises KeyError.
TagOf(m, v) == m.fd[FieldName(v)]

\* Lines 92-109 (140-149) run through without raising on mesh file content m.
Selectable(m, v) ==
  /\ m.exists
  /\ TagOf(m, v) # NoTag
  /\ ~VStackRaises(Inds(m.blocks, TagOf(m, v)))
  /\ Len(m.verts) > 0

\* Lines 92-119 (138-153): read the mesh, select the cells, look up the
\* nearest vertex, build the Mesh and seed the generator.
TreeReadOk(p, v) ==
  /\ pc[p] = ReadPc(v)
  /\ Selectable(files[msh_file], v)
  /\ Call(p, "meshio.read")
  /\ LET m == files[msh_file] IN
       /\ msh' = Set(msh, p, m)
       /\ connectivity' = Set(connectivity, p, VStack(m.blocks, Inds(m.blocks, TagOf(m, v))))
       /\ index' = Set(index, p, ArgMin(m.verts, init_node(v)))
  /\ rng' = Set(rng, p, SeedState(v, rng[p]))
  /\ Goto(p, GrowPc(v))
  /\ UNCHANGED <<files, params, gmsh, start, wrote, geo, attr>>

\* meshio.read, the tag lookup, np.vstack or argmin raises.
TreeReadFail(p, v) ==
  /\ pc[p] = ReadPc(v)
  /\ Call(p, "meshio.read")
  /\ Raise(p)
  /\ UNCHANGED <<files, params, gmsh, start, wrote, Locals, rng>>

\* Line 130/163: generate_fractal_tree grows the tree and writes it.
TreeGrowOk(p, v) ==
  /\ pc[p] = GrowPc(v)
  /\ Call(p, "generate_fractal_tree")
  /\ Write(p, TreeFile(v), Tree(v, msh[p], connectivity[p], index[p], rng[p]))
  /\ rng' = Set(rng, p, Advance(rng[p], TreeParam(v).N_it))
  /\ msh' = Set(msh, p, Absent)
  /\ connectivity' = Set(connectivity, p, <<>>)
  /\ index' = Set(index, p, 0)
  /\ Goto(p, AfterPc(v))
  /\ UNCHANGED <<params, gmsh, start, geo, attr>>

\* generate_fractal_tree raises, before or after the file was written.
TreeGrowFail(p, v) ==
  /\ pc[p] = GrowPc(v)
  /\ Call(p, "generate_fractal_tree")
  /\ \/ UNCHANGED <<files, wrote>>
     \/ Write(p, TreeFile(v), Tree(v, msh[p], connectivity[p], index[p], rng[p]))
  /\ msh' = Set(msh, p, Absent)
  /\ connectivity' = Set(connectivity, p, <<>>)
  /\ index' = Set(index, p, 0)
  /\ Raise(p)
  /\ UNCHANGED <<params, gmsh, start, geo, attr, rng>>

(* ------------------- the user, between two runs ------------------------ *)

NoRun == \A p \in Procs : pc[p] \in Terminal

Forget ==
  /\ pc' = [p \in Procs |-> "idle"]
  /\ start' = [p \in Procs |-> NoFiles]
  /\ calls' = [p \in Procs |-> {}]
  /\ wrote' = [p \in Procs |-> <<>>]
  /\ rng' = [p \in Procs |-> 0]

\* rm data/<f>
DeleteFile(f) ==
  /\ NoRun
  /\ is_file(f)
  /\ files' = [files EXCEPT ![f] = Absent]
  /\ Forget
  /\ UNCHANGED <<params, gmsh, Locals>>

\* The shape parameters of lines 29-45 are edited.
EditParams(s) ==
  /\ NoRun
  /\ s # params
  /\ params' = s
  /\ Forget
  /\ UNCHANGED <<files, gmsh, Locals>>

(* --------------------------- specifications ---------------------------- *)

Step(p) ==
  \/ Start(p)
  \/ MeshGuard(p)
  \/ MeshCallOk(p)
  \/ MeshCallFail(p)
  \/ FiberGuard(p)
  \/ FromFolderOk(p)
  \/ FromFolderFail(p)
  \/ LdrbOk(p)
  \/ LdrbFail(p)
  \/ WriteCheckpointOk(p)
  \/ WriteCheckpointFail(p)
  \/ \E v \in Ventricles :
       \/ TreeGuard(p, v)
       \/ TreeReadOk(p, v)
       \/ TreeReadFail(p, v)
       \/ TreeGrowOk(p, v)
       \/ TreeGrowFail(p, v)

User ==
  \/ \E f \in FileNames : DeleteFile(f)
  \/ \E s \in ShapeParams : EditParams(s)

\* One invocation at a time, rerun at will, the user acting between runs.
Next == (\E p \in {1} : Step(p)) \/ User

Spec == Init /\ [][Next]_vars

\* Two invocations running concurrently against the same directory.
ConcInit == InitFor({1, 2}, {GoodGeo}, NoFiles)

ConcNext == \E p \in {1, 2} : Step(p)

ConcSpec == ConcInit /\ [][ConcNext]_vars

\* Reruns of one invocation with nobody touching the directory, every rerun
\* eventually started, and every external call that can return eventually
\* returning instead of raising.
LiveNext == \E p \in {1} : Step(p)

LiveSpec ==
  /\ Init
  /\ [][LiveNext]_vars
  /\ WF_vars(LiveNext)
  /\ SF_vars(MeshCallOk(1))
  /\ SF_vars(FromFolderOk(1))
  /\ SF_vars(LdrbOk(1))
  /\ SF_vars(WriteCheckpointOk(1))
  /\ \A v \in Ventricles : SF_vars(TreeReadOk(1, v)) /\ SF_vars(TreeGrowOk(1, v))

\* The tree stages on an arbitrary mesh file: the mesh and fiber stages'
\* outputs are in place, the trees are missing.
MeshInit ==
  \E g \in MeshInputs :
    InitFor({1}, {g},
            [f \in FileNames |->
               IF f = msh_file THEN MeshContent("P", g)
               ELSE IF f \in {lv_file, rv_file} THEN Absent
               ELSE Field(CHOOSE k \in 1..3 : AttrFiles[k] = f, MeshContent("P", g))])

MeshNext ==
  \E p \in {1} :
    \/ Start(p)
    \/ MeshGuard(p)
    \/ FiberGuard(p)
    \/ \E v \in Ventricles :
         \/ TreeGuard(p, v)
         \/ TreeReadOk(p, v)
         \/ TreeReadFail(p, v)
         \/ TreeGrowOk(p, v)
         \/ TreeGrowFail(p, v)

MeshSpec == MeshInit /\ [][MeshNext]_vars

(* ------------------------------ claims --------------------------------- *)

Range(q) == {q[i] : i \in DOMAIN q}

ExternalOps ==
  {"create_biv_ellipsoid", "Geometry.from_folder", "dolfin_ldrb", "write_checkpoint",
   "meshio.read", "generate_fractal_tree"}

\* The invocation p has started and the user has not acted since.
InRun(p) == pc[p] # "idle"

AllOutputsAtStart(p) == \A f \in GuardFiles : start[p][f].exists

\* C1: a run started with biv_ellipsoid.msh, fiber.xdmf, lv_tree.vtu and
\* rv_tree.vtu all present invokes no external operation, writes nothing,
\* raises nothing and leaves every file of the directory as it was.
C1_IdempotentRerun ==
  \A p \in Procs :
    (InRun(p) /\ AllOutputsAtStart(p)) =>
      /\ calls[p] \cap ExternalOps = {}
      /\ wrote[p] = <<>>
      /\ files = start[p]
      /\ pc[p] # "failed"

\* A run started with the four guard files present, and without sheet.xdmf,
\* has reached the end of the script.
C1_Witness ==
  /\ pc[1] = "done"
  /\ AllOutputsAtStart(1)
  /\ ~start[1][AttrFiles[2]].exists

OnlyLvMissingAtStart(p) ==
  /\ \A f \in GuardFiles \ {lv_file} : start[p][f].exists
  /\ ~start[p][lv_file].exists

\* C2: a run started with the mesh, fiber and rv_tree files present and
\* lv_tree.vtu missing invokes only the LV stage's operations, writes no file
\* but lv_tree.vtu and leaves every other file as it was; when it reaches
\* the end of the script it has executed the LV stage and written lv_tree.vtu.
C2_SelectiveRegeneration ==
  \A p \in Procs :
    (InRun(p) /\ OnlyLvMissingAtStart(p)) =>
      /\ calls[p] \subseteq {"meshio.read", "generate_fractal_tree"}
      /\ Range(wrote[p]) \subseteq {lv_file}
      /\ \A f \in FileNames \ {lv_file} : files[f] = start[p][f]
      /\ pc[p] = "done" =>
           /\ calls[p] = {"meshio.read", "generate_fractal_tree"}
           /\ wrote[p] = <<lv_file>>
           /\ is_file(lv_file)

C2_Witness ==
  /\ pc[1] = "done"
  /\ OnlyLvMissingAtStart(1)
  /\ wrote[1] = <<lv_file>>

\* The tree stage v makes of mesh file content m under the seed.
TreeOfMesh(v, m) ==
  Tree(v, m, VStack(m.blocks, Inds(m.blocks, TagOf(m, v))), ArgMin(m.verts, init_node(v)), SEED)

\* C3: the generator is in the seeded state at every growth call, and a tree
\* written in a run is the function TreeOfMesh of the mesh file and the
\* stage alone, whatever ran before the stage in that run.
C3_FixedSeedDeterminism ==
  \A p \in Procs : \A v \in Ventricles :
    /\ pc[p] = GrowPc(v) => rng[p] = SEED
    /\ (InRun(p) /\ TreeFile(v) \in Range(wrote[p])) =>
         files[TreeFile(v)] = TreeOfMesh(v, files[msh_file])

\* The RV tree was written in a run whose LV stage had executed before it.
C3_Witness ==
  /\ pc[1] = "done"
  /\ \E i, j \in DOMAIN wrote[1] : i < j /\ wrote[1][i] = lv_file /\ wrote[1][j] = rv_file

\* The fiber-stage files among those p has written, in order.
FiberWrites(p) == SelectSeq(wrote[p], LAMBDA f : f \in Range(AttrFiles))

\* The fiber guard was evaluated and found fiber.xdmf missing: the stage's
\* first call follows.
EnteredFiberStage(p) == pc[p] = "from_folder" \/ "Geometry.from_folder" \in calls[p]

RunEnded(p) == pc[p] \in {"done", "failed"}

\* C4 as stated: at the end of any run, sheet.xdmf and sheet_normal.xdmf have
\* been written if and only if the fiber guard found fiber.xdmf missing.
C4_AsStated ==
  \A p \in Procs :
    RunEnded(p) =>
      (EnteredFiberStage(p) <=> {AttrFiles[2], AttrFiles[3]} \subseteq Range(wrote[p]))

\* C4 amended: the fiber-stage files are written only when fiber.xdmf was
\* missing at the guard, always in the order fiber, sheet, sheet_normal;
\* a run that reaches the end of the script wrote all three if and only if
\* fiber.xdmf was missing; and with fiber.xdmf present at the start a missing
\* sheet or sheet_normal file stays missing throughout the run.
C4_FiberGuardOnly ==
  \A p \in Procs :
    InRun(p) =>
      /\ FiberWrites(p) # <<>> => (EnteredFiberStage(p) /\ ~start[p][fiber_file].exists)
      /\ FiberWrites(p) = SubSeq(AttrFiles, 1, Len(FiberWrites(p)))
      /\ pc[p] = "done" => (FiberWrites(p) = AttrFiles <=> ~start[p][fiber_file].exists)
      /\ start[p][fiber_file].exists =>
           \A k \in 2..Len(AttrFiles) :
             ~start[p][AttrFiles[k]].exists => ~is_file(AttrFiles[k])

\* A run started with fiber.xdmf present and sheet.xdmf missing has reached
\* the end of the script.
C4_Witness ==
  /\ pc[1] = "done"
  /\ start[1][fiber_file].exists
  /\ ~start[1][AttrFiles[2]].exists

StaleAtStart(p) == start[p][msh_file].exists /\ start[p][msh_file].shape # params

\* C8: in a run started with a mesh file generated from other shape
\* parameters than the script's, the mesh stage is skipped, the mesh file stays
\* as it was, and the fiber and tree stages load exactly that mesh.
C8_StaleMesh ==
  \A p \in Procs :
    (InRun(p) /\ StaleAtStart(p)) =>
      /\ "create_biv_ellipsoid" \notin calls[p]
      /\ files[msh_file] = start[p][msh_file]
      /\ geo[p].exists => geo[p] = start[p][msh_file]
      /\ msh[p].exists => msh[p] = start[p][msh_file]

\* Such a run is about to grow a tree on the stale mesh.
C8_Witness ==
  /\ StaleAtStart(1)
  /\ pc[1] = "rv_grow"
  /\ msh[1].shape # params
  /\ fiber_file \in Range(wrote[1])

\* C10: nothing excludes two invocations from the same stage. An invocation
\* at a guard whose file is missing can enter the stage whatever the other
\* invocation is doing, and an invocation inside a tree stage can write the
\* tree file whether or not the file has appeared since its guard.
C10_NoMutualExclusion ==
  \A p \in Procs :
    /\ (pc[p] = "mesh_guard" /\ ~is_file(msh_file)) =>
         ENABLED (MeshGuard(p) /\ pc'[p] = "mesh_call")
    /\ \A v \in Ventricles :
         /\ (pc[p] = GuardPc(v) /\ ~is_file(TreeFile(v))) =>
              ENABLED (TreeGuard(p, v) /\ pc'[p] = ReadPc(v))
         /\ pc[p] = GrowPc(v) => ENABLED TreeGrowOk(p, v)

\* Both invocations found lv_tree.vtu missing before either wrote it, and
\* both have since grown the tree and written the file.
C10_Witness ==
  /\ ~start[1][lv_file].exists
  /\ ~start[2][lv_file].exists
  /\ pc[1] = "rv_guard"
  /\ pc[2] = "rv_guard"
  /\ lv_file \in Range(wrote[1])
  /\ lv_file \in Range(wrote[2])

\* The cells of mesh m, and those tagged with the endocardial tag of v.
Cells(m) == UNION {{<<b, r>> : r \in 1..Len(m.blocks[b])} : b \in 1..Len(m.blocks)}

TaggedCells(m, v) == {c \in Cells(m) : m.blocks[c[1]][c[2]] = TagOf(m, v)}

\* The statements after the stage of v.
Past(v) == IF v = "lv" THEN {"rv_guard", "rv_read", "rv_grow", "done"} ELSE {"done"}

\* C5: with a mesh file none of whose cells carries the endocardial tag of v,
\* a run that finds the tree file of v missing never reaches the growth call
\* of v, writes no tree file for v, and executes no statement after the stage.
C5_EmptySelectionRaises ==
  \A p \in Procs : \A v \in Ventricles :
    (InRun(p) /\ is_file(msh_file) /\ TaggedCells(files[msh_file], v) = {}
       /\ ~start[p][TreeFile(v)].exists) =>
      /\ pc[p] # GrowPc(v)
      /\ "generate_fractal_tree" \in calls[p] => v = "rv"
      /\ TreeFile(v) \notin Range(wrote[p])
      /\ ~is_file(TreeFile(v))
      /\ pc[p] \notin Past(v)

\* The LV stage has raised on a mesh whose field_data names ENDO_LV and
\* whose cells, of which there are some, all carry another tag.
C5_Witness ==
  /\ pc[1] = "failed"
  /\ "meshio.read" \in calls[1]
  /\ TagOf(files[msh_file], "lv") = TagLV
  /\ Cells(files[msh_file]) # {}
  /\ TaggedCells(files[msh_file], "lv") = {}

Permuted(vs, pi) == [i \in 1..Len(vs) |-> vs[pi[i]]]

\* The vertices of vs at minimal distance from c.
Nearest(vs, c) ==
  {vs[i] : i \in {i \in 1..Len(vs) : \A j \in 1..Len(vs) : Dist2(vs[i], c) <= Dist2(vs[j], c)}}

\* C6 as stated: the vertex the lookup selects is the same for every
\* ordering of the vertex array.
C6_AsStated ==
  \A p \in Procs : \A v \in Ventricles :
    pc[p] = GrowPc(v) =>
      \A pi \in Permutations(1..Len(msh[p].verts)) :
        Permuted(msh[p].verts, pi)[ArgMin(Permuted(msh[p].verts, pi), init_node(v))]
          = msh[p].verts[index[p]]

\* C6 amended: the lookup returns the first index at which the minimal
\* distance is attained; when a single vertex coordinate is at minimal
\* distance, the selected vertex is the same for every ordering of the array.
C6_NearestVertex ==
  \A p \in Procs : \A v \in Ventricles :
    pc[p] = GrowPc(v) =>
      LET vs == msh[p].verts
          c == init_node(v)
      IN /\ index[p] \in 1..Len(vs)
         /\ vs[index[p]] \in Nearest(vs, c)
         /\ \A j \in 1..(index[p] - 1) : vs[j] \notin Nearest(vs, c)
         /\ Cardinality(Nearest(vs, c)) = 1 =>
              \A pi \in Permutations(1..Len(vs)) :
                Permuted(vs, pi)[ArgMin(Permuted(vs, pi), c)] = vs[index[p]]

\* The LV lookup has selected the last of three vertices, the only nearest one.
C6_Witness ==
  /\ pc[1] = "lv_grow"
  /\ Len(msh[1].verts) = 3
  /\ index[1] = 3
  /\ Cardinality(Nearest(msh[1].verts, LvSeedPoint)) = 1

\* C7 as stated: the connectivity handed to the growth call of v is exactly
\* the set of cells whose tag is the endocardial tag of v.
C7_AsStated ==
  \A p \in Procs : \A v \in Ventricles :
    pc[p] = GrowPc(v) => Range(connectivity[p]) = TaggedCells(msh[p], v)

\* The stage a position of the script belongs to: 1 mesh, 2 fiber, 3 LV tree,
\* 4 RV tree, 5 past the last stage.
Rank(l) ==
  CASE l \in {"mesh_guard", "mesh_call"} -> 1
    [] l \in {"fiber_guard", "from_folder", "ldrb", "write"} -> 2
    [] l \in {"lv_guard", "lv_read", "lv_grow"} -> 3
    [] l \in {"rv_guard", "rv_read", "rv_grow"} -> 4
    [] OTHER -> 5

\* The guard of each stage: its position, its file, and the first position
\* inside the stage.
StageGuards ==
  {<<"mesh_guard", msh_file, "mesh_call">>, <<"fiber_guard", fiber_file, "from_folder">>,
   <<"lv_guard", lv_file, "lv_read">>, <<"rv_guard", rv_file, "rv_read">>}

AllGuardFiles == \A f \in GuardFiles : is_file(f)

\* The mesh file is one on which a tree stage that still has to run raises.
Unusable ==
  /\ is_file(msh_file)
  /\ \E v \in Ventricles : ~is_file(TreeFile(v)) /\ ~Selectable(files[msh_file], v)

\* C9: within a run the stages follow the order mesh, fiber, LV tree, RV tree
\* and nothing follows a failure but a new run; no step of the script removes
\* a file; at each guard the stage is entered exactly when its guard file is
\* missing and skipped otherwise; and, reruns continuing and calls eventually
\* returning, the four guard files all come to exist unless the mesh file is
\* one on which a remaining tree stage cannot but raise.
C9_Resumable ==
  /\ [][\A p \in Procs :
          pc'[p] # pc[p] =>
            IF pc[p] \in Terminal THEN pc'[p] = "mesh_guard"
            ELSE Rank(pc'[p]) >= Rank(pc[p])]_vars
  /\ [][\A f \in FileNames : files[f].exists => files'[f].exists]_vars
  /\ [][\A p \in Procs : \A g \in StageGuards :
          (pc[p] = g[1] /\ pc'[p] # pc[p]) =>
            IF files[g[2]].exists THEN Rank(pc'[p]) > Rank(pc[p]) ELSE pc'[p] = g[3]]_vars
  /\ <>(AllGuardFiles \/ Unusable)

\* A run that found fiber.xdmf present and lv_tree.vtu missing, left so by a
\* run that failed, has executed the two tree stages and reached the end with
\* the four guard files present.
C9_Witness ==
  /\ pc[1] = "done"
  /\ start[1][msh_file].exists
  /\ start[1][fiber_file].exists
  /\ ~start[1][lv_file].exists
  /\ wrote[1] = <<lv_file, rv_file>>
  /\ AllGuardFiles

====
